---- MODULE Spec2Model ----
(***************************************************************************)
(* OmniTrade AI Core: the background monitor loops spawned by              *)
(* startup_event (src/main.py), the shutdown handler with DataNexus        *)
(* (src/core/data_nexus.py), the SocialScraper mock stream                 *)
(* (src/core/scrapers/social_scraper.py), the /ws decision stream and the  *)
(* scale-scraper endpoint (src/main.py).                                   *)
(*                                                                         *)
(* Everything runs on one asyncio event loop: a coroutine runs until it    *)
(* awaits something that is not ready.  A cycle that never suspends (a     *)
(* plain call, or an async def that only makes blocking calls such as      *)
(* requests.get) holds the loop for its whole duration; the clock moves    *)
(* on while no other task can run.  The clock counts ticks of 5 seconds,   *)
(* the greatest common divisor of the modelled sleeps.                     *)
(***************************************************************************)
EXTENDS Integers, Sequences, FiniteSets, TLC

\* ---------------------------------------------------------------- bounds
\* Last tick of the modelled run.
MaxTime == 6
\* Longest time, in ticks, one non-suspending cycle holds the event loop.
MaxBlock == 1

\* How often the host may invoke shutdown_event.
MaxShutdowns == 2
\* The grace period, in ticks, that the shutdown properties are stated for
\* (the code sets none).
GracePeriod == 1
\* How many posts of the mock stream are followed.
MaxPosts == 3
\* How many times start_stream may be called.
MaxStreams == 3

\* Last second of the modelled run of the /ws handlers.
MaxWsTime == 3
\* Snapshots the transport of one connection holds before send_text waits.
BufCap == 2
\* How many scale requests are followed, and the largest replica count asked.
MaxScaleReqs == 3
MaxReplicas == 6

\* How many symbols fetch_funding_rates reports.
MaxSymbols == 6
\* How many times DefiLlamaTracker.run_cycle is invoked.
MaxDefiRuns == 2
\* The largest fee fetch_gas_price is given, and how many cycles are followed.
MaxPrice == 8
MaxGasCycles == 6

\* ------------------------------------------------------ program constants
\* await asyncio.sleep(10) of run_global_book_analysis
SleepGlobalBook == 10
\* await asyncio.sleep(15) of run_exchange_flow_monitor
SleepExchangeFlow == 15
\* await asyncio.sleep(30) of run_gas_watcher
SleepGasWatcher == 30

\* The loops of startup_event that are modelled: the three shortest cadences.
\* run_global_book_analysis awaits its cycle; run_exchange_flow_monitor calls
\* a plain function; run_gas_watcher awaits a coroutine whose only I/O is the
\* blocking requests.get, so it never suspends either.
Monitors == {"run_global_book_analysis", "run_exchange_flow_monitor", "run_gas_watcher"}

\* Cadence as it would be if every loop slept the shortest interval.
CadenceAllShortest(m) == SleepGlobalBook \div 5

\* The sleep of loop m, in ticks.
Cadence(m) ==
    CASE m = "run_global_book_analysis" -> SleepGlobalBook \div 5
      [] m = "run_exchange_flow_monitor" -> SleepExchangeFlow \div 5
      [] m = "run_gas_watcher" -> SleepGasWatcher \div 5

\* TRUE for a loop whose cycle never yields to the event loop.
Blocking(m) == m \in {"run_exchange_flow_monitor", "run_gas_watcher"}

\* The failures of a cycle: network error, malformed payload, analysis error.
\* All are Exception subclasses, which "except Exception as e" catches.
Causes == {"network error", "malformed payload", "analysis error"}
Outcomes == {"ok"} \cup Causes

\* The three feeds of DataNexus, in the order stop() awaits them.
Comps == <<"cex", "on_chain", "sentiment">>
CompSet == {Comps[i] : i \in 1..Len(Comps)}

\* random.choice(sample_texts) and random.choice(["Twitter", "Telegram"])
SampleTexts == 1..5
Platforms == {"Twitter", "Telegram"}

NoTime == 0 - 1

\* "if request.replicas < 4" of scale_scraper
ScaleFloor == 4
\* await asyncio.sleep(1) of websocket_endpoint, in seconds
StreamInterval == 1
\* "pnl": 0.0 and "timestamp": "2025-11-30T00:00:00Z" of the payload
PnlPlaceholder == 0
FixedTimestamp == "2025-11-30T00:00:00Z"

\* The connections to /ws that are followed; each has its own handler.
Subs == {"ws1", "ws2"}

\* What get_swarm_decision returns: action, confidence, active_agents and
\* agent_decisions.
Decisions ==
    [action : {"BUY", "HOLD"}, confidence : {1}, active_agents : {2},
     agent_decisions : {"votes"}]
RequiredKeys == {"action", "confidence", "active_agents", "agent_decisions"}
\* A decision that lacks one of the keys the handler subscripts.
Malformed ==
    LET d == [action |-> "BUY", confidence |-> 1, active_agents |-> 2,
              agent_decisions |-> "votes"]
    IN {[k \in RequiredKeys \ {missing} |-> d[k]] : missing \in RequiredKeys}
\* get_swarm_decision raising instead of returning.
AggregatorError == [error |-> "aggregator failure"]
AggregatorResults == Decisions \cup Malformed \cup {AggregatorError}

NoPayload == [timestamp |-> "none"]
NoReplicas == 0 - 1
NoResp == [status |-> 0, replicas |-> NoReplicas]

NoRun == [raised |-> FALSE, returncode |-> 0 - 1]

\* How subprocess.run ends: a return code, or an exception (no docker CLI).
RunOutcomes ==
    {[raised |-> FALSE, returncode |-> c] : c \in 0..2}
        \cup {[raised |-> TRUE, returncode |-> 0 - 1]}

\* The classes with a run_cycle.
Producers ==
    {"DefiLlamaTracker", "OptionsSentiment", "FundingArbScanner", "GasWatcher",
     "NewsTrader", "BridgeWatcher"}

\* The external fetches one pass of run_cycle makes: one per watched
\* protocol, per currency, per bridge; one for the others.
Fetches(p) ==
    CASE p = "DefiLlamaTracker" -> 4
      [] p = "OptionsSentiment" -> 2
      [] p = "BridgeWatcher" -> 3
      [] OTHER -> 1

\* run_cycle wraps its pass in "while True" with a sleep after it.
Repeats(p) == p = "BridgeWatcher"

\* The analysis that follows the fetches runs outside any try/except that
\* catches every exception.
AnalysisCanRaise(p) == p \in {"OptionsSentiment", "NewsTrader"}

NoPrice == 0 - 1

\* self.spike_threshold = 2.0 of GasWatcher
SpikeThreshold == 2

\* What requests.get(self.mempool_api) can come to: an exception (also one
\* of response.json()), a status other than 200, a 200 whose JSON has no
\* 'fastestFee', or a 200 with a fee.  Fees are non-negative numbers.
GasResponses ==
    {[kind |-> "raise", fee |-> NoPrice], [kind |-> "status", fee |-> NoPrice],
     [kind |-> "nokey", fee |-> NoPrice]}
        \cup {[kind |-> "fee", fee |-> f] : f \in 0..MaxPrice}
NoData == [kind |-> "none"]

\* self.protocols_to_watch of DefiLlamaTracker, in order
Protocols == <<"aave-v3", "uniswap-v3", "lido", "makerdao">>
\* "if tvl_change_pct > 20.0"
TvlTrigger == 20
\* totalLiquidityUSD values of a TVL history: nothing, a base, the base plus
\* exactly 20 percent, and more than that.
TvlValues == {0, 10, 12, 13}
\* The tail of data['tvl']: analyze_health reads its last two entries only.
TvlHistories ==
    {<<>>} \cup {<<a>> : a \in TvlValues} \cup {<<a, b>> : a, b \in TvlValues}
\* What requests.get(url) of fetch_protocol_data can come to: an exception,
\* a status other than 200, or a 200 whose JSON is an empty object or an
\* object with or without 'name' and with a TVL history.
DefiResponses ==
    {[kind |-> "raise"], [kind |-> "status"], [kind |-> "empty"]}
        \cup {[kind |-> "json", named |-> n, tvl |-> h] :
                    n \in BOOLEAN, h \in TvlHistories}
NoRates == <<>>

\* self.min_funding_rate_threshold = 0.001; funding rates are counted in
\* units of 1/10000
FundingThreshold == 10
\* "return opportunities[:5]"
TopN == 5
\* data.get('fundingRate') of a symbol: missing (None), negative, zero, at
\* the threshold, just above it, well above it.
NoRate == 0 - 9999
RateValues == {NoRate, 0 - 10, 0, 10, 11, 20}

VARIABLES
    now,          \* the event loop's clock, in ticks since startup
    startupPc,    \* startup_event: "idle" | "awaiting" | "returned"
    taskCount,    \* tasks created per monitor loop
    pc,           \* per loop: "none" | "created" | "running" | "sleeping" | "dead"
    wakeAt,       \* per loop: when its asyncio.sleep expires
    inFlight,     \* per loop: cycles begun and not yet ended
    cycles,       \* per loop: cycles begun so far
    lastEnd,      \* per loop: end time of its latest finished cycle
    errCount,     \* per loop: logger.error calls made
    okCount,      \* per loop: cycles that returned without raising
    lastLog,      \* the latest logger.error record
    lastResult,   \* the latest finished cycle: whose it was and how it ended
    nexusTask,    \* the task of data_nexus.start(): "none" | "created" | "gathering" | "returned" | "raised"
    startPc,      \* per feed, its start(): "new" | "running" | "returned" | "raised"
    stopped,      \* per feed: its stop() has returned
    shutPc,       \* shutdown_event: "idle" | the feed whose stop() it awaits | "done" | "raised"
    shutAt,       \* when shutdown_event was last invoked
    shutCalls,    \* how often shutdown_event was invoked
    running,      \* SocialScraper.running
    streamPc,     \* per _mock_stream task: "none" | "created" | "sleeping" | "done"
    posts,        \* posts logged by the mock stream
    lastPost,     \* the latest post logged
    stopAsked,    \* per _mock_stream task: stop_stream was called while it slept
    wsNow,        \* the clock of the /ws handlers, in seconds
    wsPc,         \* per connection: "none" | "deciding" | "sending" | "sleeping" | "closed"
    wsWake,       \* per connection: when its asyncio.sleep(1) expires
    wsQueries,    \* per connection: get_swarm_decision calls made by its handler
    wsSent,       \* per connection: send_text calls that returned
    wsPayload,    \* per connection: the latest payload its handler built
    wsLastAt,     \* per connection: when its latest send_text returned
    wsBuf,        \* per connection: snapshots written and not yet read by the client
    wsGone,       \* per connection: the client has gone away
    scaleReq,     \* replicas of the latest scale request
    scaleCmds,    \* the scraper=<n> arguments of the docker commands run, in order
    scaleRun,     \* how the latest subprocess.run ended
    scaleResp,    \* the latest response of scale_scraper
    prodPc,       \* per producer, its run_cycle: "idle" | "fetching" | "sleeping" | "returned" | "raised"
    prodLeft,     \* per producer: fetches still to make in the current pass
    lastGasPrice, \* GasWatcher.last_gas_price
    gasFetched,   \* what fetch_gas_price returned in the latest cycle (current_gas)
    gasAlert,     \* the latest monitor_network logged the spike warning
    gasCycles,    \* monitor_network cycles run
    defiPc,       \* DefiLlamaTracker.run_cycle: "idle" | "running" | "returned" | "raised"
    defiIdx,      \* protocols of protocols_to_watch processed in this invocation
    defiData,     \* what fetch_protocol_data returned for the latest protocol
    defiSignals,  \* protocols for which "DeFiLlama Signal" was logged in this invocation
    defiRuns,     \* invocations of DefiLlamaTracker.run_cycle
    fundPc,       \* scan_opportunities: "idle" | "returned"
    fundRates,    \* what fetch_funding_rates returned in the latest scan
    fundResult    \* what the latest scan_opportunities returned

schedVars == <<taskCount, pc, wakeAt, inFlight, cycles, lastEnd, errCount, okCount,
               lastLog, lastResult>>
nexusVars == <<nexusTask, startPc, stopped>>
shutVars == <<shutPc, shutAt, shutCalls>>
scraperVars == <<running, streamPc, posts, lastPost, stopAsked>>
wsVars == <<wsNow, wsPc, wsWake, wsQueries, wsSent, wsPayload, wsLastAt, wsBuf, wsGone>>
scaleVars == <<scaleReq, scaleCmds, scaleRun, scaleResp>>
prodVars == <<prodPc, prodLeft>>
gasVars == <<lastGasPrice, gasFetched, gasAlert, gasCycles>>
defiVars == <<defiPc, defiIdx, defiData, defiSignals, defiRuns>>
fundVars == <<fundPc, fundRates, fundResult>>
producerVars == <<prodVars, gasVars, defiVars, fundVars>>
vars == <<now, startupPc, schedVars, nexusVars, shutVars, scraperVars, wsVars, scaleVars,
          producerVars>>

NoLog == [monitor |-> "none", cause |-> "none"]
NoPost == [platform |-> "none", text |-> 0]

Init ==
    /\ now = 0
    /\ startupPc = "idle"
    /\ taskCount = [m \in Monitors |-> 0]
    /\ pc = [m \in Monitors |-> "none"]
    /\ wakeAt = [m \in Monitors |-> NoTime]
    /\ inFlight = [m \in Monitors |-> 0]
    /\ cycles = [m \in Monitors |-> 0]
    /\ lastEnd = [m \in Monitors |-> NoTime]
    /\ errCount = [m \in Monitors |-> 0]
    /\ okCount = [m \in Monitors |-> 0]
    /\ lastLog = NoLog
    /\ lastResult = NoLog
    /\ nexusTask = "none"
    /\ startPc = [c \in CompSet |-> "new"]
    /\ stopped = [c \in CompSet |-> FALSE]
    /\ shutPc = "idle"
    /\ shutAt = NoTime
    /\ shutCalls = 0
    /\ running = FALSE
    /\ streamPc = [i \in 1..MaxStreams |-> "none"]
    /\ posts = 0
    /\ lastPost = NoPost
    /\ stopAsked = [i \in 1..MaxStreams |-> FALSE]
    /\ wsNow = 0
    /\ wsPc = [s \in Subs |-> "none"]
    /\ wsWake = [s \in Subs |-> NoTime]
    /\ wsQueries = [s \in Subs |-> 0]
    /\ wsSent = [s \in Subs |-> 0]
    /\ wsPayload = [s \in Subs |-> NoPayload]
    /\ wsLastAt = [s \in Subs |-> NoTime]
    /\ wsBuf = [s \in Subs |-> 0]
    /\ wsGone = [s \in Subs |-> FALSE]
    /\ scaleReq = NoReplicas
    /\ scaleCmds = <<>>
    /\ scaleRun = NoRun
    /\ scaleResp = NoResp
    /\ prodPc = [p \in Producers |-> "idle"]
    /\ prodLeft = [p \in Producers |-> 0]
    /\ lastGasPrice = NoPrice
    /\ gasFetched = NoPrice
    /\ gasAlert = FALSE
    /\ gasCycles = 0
    /\ defiPc = "idle"
    /\ defiIdx = 0
    /\ defiData = NoData
    /\ defiSignals = {}
    /\ defiRuns = 0
    /\ fundPc = "idle"
    /\ fundRates = NoRates
    /\ fundResult = <<>>

\* Startup as it would be if it awaited data_nexus.start() instead of handing
\* it to create_task: it stays suspended in that await.
StartupAwaitsNexus ==
    /\ startupPc = "idle"
    /\ startupPc' = "awaiting"
    /\ nexusTask' = "created"
    /\ UNCHANGED <<now, schedVars, startPc, stopped, shutVars, scraperVars, wsVars, scaleVars, producerVars>>

\* startup_event: fifteen create_task calls and no await; it returns at once.
Startup ==
    /\ startupPc = "idle"
    /\ startupPc' = "returned"
    /\ nexusTask' = "created"
    /\ taskCount' = [m \in Monitors |-> taskCount[m] + 1]
    /\ pc' = [m \in Monitors |-> "created"]
    /\ UNCHANGED <<now, wakeAt, inFlight, cycles, lastEnd, errCount, okCount, lastLog,
                   lastResult>>
    /\ UNCHANGED <<startPc, stopped, shutVars, scraperVars, wsVars, scaleVars, producerVars>>

\* Ready as it would be if the loop did not await its cycle: the next
\* iteration is due while the previous cycle is still in flight.
ReadyWithoutAwait(m) ==
    \/ pc[m] = "created"
    \/ pc[m] \in {"sleeping", "running"} /\ now >= wakeAt[m]

\* A loop task can take its next step: it was just created, or its sleep is over.
Ready(m) ==
    \/ pc[m] = "created"
    \/ pc[m] = "sleeping" /\ now >= wakeAt[m]

\* NextPc as it would be without the try/except: a raising cycle ends the task.
NextPcNoCatch(outcome) == IF outcome = "ok" THEN "sleeping" ELSE "dead"

\* Where the loop goes after "try: cycle / except Exception: log".
NextPc(outcome) == "sleeping"

\* WakeTime as it would be if the except branch went straight to the next
\* iteration (a "continue" before the sleep).
WakeTimeNoSleepOnFailure(m, t, outcome) == IF outcome = "ok" THEN t + Cadence(m) ELSE t

\* The argument of the asyncio.sleep that follows the try/except, as a deadline.
WakeTime(m, t, outcome) == t + Cadence(m)

\* The try/except around the cycle: on an exception, one logger.error naming
\* the loop and the exception; nothing on a return.
LogAfter(m, outcome) ==
    /\ errCount' = [errCount EXCEPT ![m] = IF outcome = "ok" THEN @ ELSE @ + 1]
    /\ okCount' = [okCount EXCEPT ![m] = IF outcome = "ok" THEN @ + 1 ELSE @]
    /\ lastLog' = IF outcome = "ok" THEN lastLog ELSE [monitor |-> m, cause |-> outcome]

\* A loop iteration whose cycle never suspends: it runs to its end, d ticks
\* later, with nothing else scheduled in between, then sleeps.
CycleBlocking(m) ==
    /\ Blocking(m)
    /\ Ready(m)
    /\ \E d \in 0..MaxBlock, outcome \in Outcomes :
        /\ now + d <= MaxTime
        /\ now' = now + d
        /\ cycles' = [cycles EXCEPT ![m] = @ + 1]
        /\ lastEnd' = [lastEnd EXCEPT ![m] = now + d]
        /\ lastResult' = [monitor |-> m, cause |-> outcome]
        /\ LogAfter(m, outcome)
        /\ pc' = [pc EXCEPT ![m] = NextPc(outcome)]
        /\ wakeAt' = [wakeAt EXCEPT ![m] = WakeTime(m, now + d, outcome)]
    /\ UNCHANGED <<startupPc, taskCount, inFlight, nexusVars, shutVars, scraperVars, wsVars, scaleVars, producerVars>>

\* A loop iteration begins a cycle that suspends on its I/O.
CycleStart(m) ==
    /\ ~Blocking(m)
    /\ Ready(m)
    /\ pc' = [pc EXCEPT ![m] = "running"]
    /\ inFlight' = [inFlight EXCEPT ![m] = @ + 1]
    /\ cycles' = [cycles EXCEPT ![m] = @ + 1]
    /\ UNCHANGED <<now, startupPc, taskCount, wakeAt, lastEnd, errCount, okCount, lastLog,
                   lastResult>>
    /\ UNCHANGED <<nexusVars, shutVars, scraperVars, wsVars, scaleVars, producerVars>>

\* The awaited cycle returns or raises; the loop logs a failure and sleeps.
CycleEnd(m) ==
    /\ pc[m] = "running"
    /\ \E outcome \in Outcomes :
        /\ lastResult' = [monitor |-> m, cause |-> outcome]
        /\ LogAfter(m, outcome)
        /\ pc' = [pc EXCEPT ![m] = NextPc(outcome)]
        /\ wakeAt' = [wakeAt EXCEPT ![m] = WakeTime(m, now, outcome)]
    /\ inFlight' = [inFlight EXCEPT ![m] = @ - 1]
    /\ lastEnd' = [lastEnd EXCEPT ![m] = now]
    /\ UNCHANGED <<now, startupPc, taskCount, cycles, nexusVars, shutVars, scraperVars, wsVars, scaleVars, producerVars>>

\* One tick passes.  The event loop runs every ready task before it waits.
\* The clock counts from the moment startup_event has run.
Tick ==
    /\ startupPc = "returned"
    /\ now < MaxTime
    /\ \A m \in Monitors : ~Ready(m)
    /\ now' = now + 1
    /\ UNCHANGED <<startupPc, schedVars, nexusVars, shutVars, scraperVars, wsVars, scaleVars, producerVars>>

\* shutdown_event up to its first suspension: it calls data_nexus.stop(),
\* which awaits cex.stop().  No monitor task is cancelled or signalled.
ShutdownInvoke ==
    /\ startupPc = "returned"
    /\ shutPc \in {"idle", "done", "raised"}
    /\ shutCalls < MaxShutdowns
    /\ shutPc' = Comps[1]
    /\ shutAt' = now
    /\ shutCalls' = shutCalls + 1
    /\ UNCHANGED <<now, startupPc, schedVars, nexusVars, scraperVars, wsVars, scaleVars, producerVars>>

\* The task of data_nexus.start() runs up to its await: asyncio.gather starts
\* the three feeds' start() together.
NexusStart ==
    /\ nexusTask = "created"
    /\ nexusTask' = "gathering"
    /\ startPc' = [c \in CompSet |-> "running"]
    /\ UNCHANGED <<now, startupPc, schedVars, stopped, shutVars, scraperVars, wsVars, scaleVars, producerVars>>

\* One feed's start() returns; gather returns once all three have.
CompStartReturn(c) ==
    /\ startPc[c] = "running"
    /\ startPc' = [startPc EXCEPT ![c] = "returned"]
    /\ nexusTask' = IF nexusTask = "gathering" /\ \A k \in CompSet : startPc'[k] = "returned"
                     THEN "returned" ELSE nexusTask
    /\ UNCHANGED <<now, startupPc, schedVars, stopped, shutVars, scraperVars, wsVars, scaleVars, producerVars>>

\* One feed's start() raises; gather hands the first exception to
\* data_nexus.start() and leaves the other feeds' start() running.
CompStartRaise(c) ==
    /\ startPc[c] = "running"
    /\ startPc' = [startPc EXCEPT ![c] = "raised"]
    /\ nexusTask' = IF nexusTask = "gathering" THEN "raised" ELSE nexusTask
    /\ UNCHANGED <<now, startupPc, schedVars, stopped, shutVars, scraperVars, wsVars, scaleVars, producerVars>>

\* The feed stop() awaited after c's in DataNexus.stop, or "done" after the last.
AfterStop(c) ==
    LET i == CHOOSE k \in 1..Len(Comps) : Comps[k] = c
    IN IF i < Len(Comps) THEN Comps[i + 1] ELSE "done"

\* The awaited stop() of feed c returns: DataNexus.stop goes on to the next
\* await, and shutdown_event returns after the last.
StopReturn(c) ==
    /\ shutPc = c
    /\ stopped' = [stopped EXCEPT ![c] = TRUE]
    /\ shutPc' = AfterStop(c)
    /\ UNCHANGED <<now, startupPc, schedVars, nexusTask, startPc, shutAt, shutCalls, scraperVars, wsVars, scaleVars, producerVars>>

\* The awaited stop() of feed c raises: nothing catches it, so it leaves
\* DataNexus.stop and shutdown_event, and the later feeds are not stopped.
StopRaise(c) ==
    /\ shutPc = c
    /\ shutPc' = "raised"
    /\ UNCHANGED <<now, startupPc, schedVars, nexusVars, shutAt, shutCalls, scraperVars, wsVars, scaleVars, producerVars>>

\* One tick passes for the lifecycle handlers (the monitor loops, which share
\* no state with them, are not followed here).  An awaited stop() that has not
\* returned stays awaited: DataNexus.stop sets no timeout.
Elapse ==
    /\ startupPc = "returned"
    /\ now < MaxTime
    /\ now' = now + 1
    /\ UNCHANGED <<startupPc, schedVars, nexusVars, shutVars, scraperVars, wsVars, scaleVars, producerVars>>

\* SocialScraper.start_stream: sets the flag and creates one more task.
StartStream ==
    /\ \E i \in 1..MaxStreams :
        /\ streamPc[i] = "none"
        /\ \A j \in 1..(i - 1) : streamPc[j] # "none"
        /\ streamPc' = [streamPc EXCEPT ![i] = "created"]
    /\ running' = TRUE
    /\ UNCHANGED <<now, startupPc, schedVars, nexusVars, shutVars, wsVars, scaleVars, producerVars, posts, lastPost,
                   stopAsked>>

\* SocialScraper.stop_stream: clears the flag.  Every task asleep in its
\* loop at the call is noted as asked to stop.
StopStream ==
    /\ running' = FALSE
    /\ stopAsked' = [i \in 1..MaxStreams |->
                        stopAsked[i] \/ streamPc[i] = "sleeping"]
    /\ UNCHANGED <<now, startupPc, schedVars, nexusVars, shutVars, wsVars, scaleVars, producerVars, streamPc, posts, lastPost>>

\* "while self.running": the test made before each sleep.
LoopTest(flag) == IF flag THEN "sleeping" ELSE "done"

\* A _mock_stream task runs for the first time, up to its first sleep.
StreamBegin(i) ==
    /\ streamPc[i] = "created"
    /\ streamPc' = [streamPc EXCEPT ![i] = LoopTest(running)]
    /\ UNCHANGED <<now, startupPc, schedVars, nexusVars, shutVars, wsVars, scaleVars, producerVars, running, posts, lastPost,
                   stopAsked>>

\* A _mock_stream task wakes from asyncio.sleep(5): it logs a post, then
\* tests the flag again.
StreamWake(i) ==
    /\ streamPc[i] = "sleeping"
    /\ posts < MaxPosts
    /\ \E t \in SampleTexts, pf \in Platforms :
        lastPost' = [platform |-> pf, text |-> t]
    /\ posts' = posts + 1
    /\ streamPc' = [streamPc EXCEPT ![i] = LoopTest(running)]
    /\ UNCHANGED <<now, startupPc, schedVars, nexusVars, shutVars, wsVars, scaleVars, producerVars, running, stopAsked>>

coreVars == <<now, startupPc, schedVars, nexusVars, shutVars, scraperVars>>

\* The decision has every key the payload construction subscripts.
WellFormed(d) == RequiredKeys \subseteq DOMAIN d

\* The payload dict of websocket_endpoint, which json.dumps serialises.
BuildPayload(d) ==
    [pnl |-> PnlPlaceholder,
     active_agents |-> d.active_agents,
     signals |-> [action |-> d.action, confidence |-> d.confidence,
                  agent_decisions |-> d.agent_decisions],
     timestamp |-> FixedTimestamp]

\* PcAfterFailure as it would be if one loop served every connection and an
\* exception left it: every connection stops being served.
PcAfterFailureShared(s, failed) == "closed"

\* PcAfterFailure as it would be if the except branch went on with the loop.
PcAfterFailureRetry(s, failed) == IF s = failed THEN "sleeping" ELSE wsPc[s]

\* The except branches of websocket_endpoint: the exception leaves the
\* "while True" of the handler that raised, and that handler returns.
PcAfterFailure(s, failed) == IF s = failed THEN "closed" ELSE wsPc[s]

\* WsNextWake as it would be if the loop did not sleep between iterations.
WsNextWakeNoSleep(t) == t

\* When the asyncio.sleep(1) that follows a send_text returning at t is over.
WsNextWake(t) == t + StreamInterval

\* A client connects: its handler accepts, enters the loop and awaits
\* get_swarm_decision.
WsConnect(s) ==
    /\ wsPc[s] = "none"
    /\ wsPc' = [wsPc EXCEPT ![s] = "deciding"]
    /\ wsQueries' = [wsQueries EXCEPT ![s] = @ + 1]
    /\ UNCHANGED <<wsNow, wsWake, wsSent, wsPayload, wsLastAt, wsBuf, wsGone>>
    /\ UNCHANGED <<coreVars, scaleVars, producerVars>>

\* get_swarm_decision returns: the handler builds the payload and awaits
\* send_text(json.dumps(payload)).
WsDecisionOk(s) ==
    /\ wsPc[s] = "deciding"
    /\ \E d \in AggregatorResults :
        /\ WellFormed(d)
        /\ wsPayload' = [wsPayload EXCEPT ![s] = BuildPayload(d)]
    /\ wsPc' = [wsPc EXCEPT ![s] = "sending"]
    /\ UNCHANGED <<wsNow, wsWake, wsQueries, wsSent, wsLastAt, wsBuf, wsGone>>
    /\ UNCHANGED <<coreVars, scaleVars, producerVars>>

\* get_swarm_decision raises, or returns a decision without a key the
\* payload subscripts (KeyError): "except Exception" logs and closes.
WsDecisionBad(s) ==
    /\ wsPc[s] = "deciding"
    /\ \E d \in AggregatorResults : ~WellFormed(d)
    /\ wsPc' = [c \in Subs |-> PcAfterFailure(c, s)]
    /\ UNCHANGED <<wsNow, wsWake, wsQueries, wsSent, wsPayload, wsLastAt, wsBuf, wsGone>>
    /\ UNCHANGED <<coreVars, scaleVars, producerVars>>

\* send_text returns once the transport has taken the snapshot; the handler
\* then sleeps for the interval.
WsSendReturn(s) ==
    /\ wsPc[s] = "sending"
    /\ ~wsGone[s]
    /\ wsBuf[s] < BufCap
    /\ wsBuf' = [wsBuf EXCEPT ![s] = @ + 1]
    /\ wsSent' = [wsSent EXCEPT ![s] = @ + 1]
    /\ wsLastAt' = [wsLastAt EXCEPT ![s] = wsNow]
    /\ wsPc' = [wsPc EXCEPT ![s] = "sleeping"]
    /\ wsWake' = [wsWake EXCEPT ![s] = WsNextWake(wsNow)]
    /\ UNCHANGED <<wsNow, wsQueries, wsPayload, wsGone>>
    /\ UNCHANGED <<coreVars, scaleVars, producerVars>>

\* send_text raises (the client is gone, or the connection broke): one of
\* the except branches runs and the handler returns.
WsSendFail(s) ==
    /\ wsPc[s] = "sending"
    /\ wsPc' = [c \in Subs |-> PcAfterFailure(c, s)]
    /\ UNCHANGED <<wsNow, wsWake, wsQueries, wsSent, wsPayload, wsLastAt, wsBuf, wsGone>>
    /\ UNCHANGED <<coreVars, scaleVars, producerVars>>

\* asyncio.sleep(1) is over: the next iteration awaits get_swarm_decision.
WsWakeUp(s) ==
    /\ wsPc[s] = "sleeping"
    /\ wsNow >= wsWake[s]
    /\ wsPc' = [wsPc EXCEPT ![s] = "deciding"]
    /\ wsQueries' = [wsQueries EXCEPT ![s] = @ + 1]
    /\ UNCHANGED <<wsNow, wsWake, wsSent, wsPayload, wsLastAt, wsBuf, wsGone>>
    /\ UNCHANGED <<coreVars, scaleVars, producerVars>>

\* The client reads one snapshot from its connection.
WsConsume(s) ==
    /\ wsBuf[s] > 0
    /\ ~wsGone[s]
    /\ wsBuf' = [wsBuf EXCEPT ![s] = @ - 1]
    /\ UNCHANGED <<wsNow, wsPc, wsWake, wsQueries, wsSent, wsPayload, wsLastAt, wsGone>>
    /\ UNCHANGED <<coreVars, scaleVars, producerVars>>

\* The client goes away.  The handler never receives, so it learns of it
\* only when its next send_text raises.
WsDisconnect(s) ==
    /\ wsPc[s] \notin {"none", "closed"}
    /\ ~wsGone[s]
    /\ wsGone' = [wsGone EXCEPT ![s] = TRUE]
    /\ UNCHANGED <<wsNow, wsPc, wsWake, wsQueries, wsSent, wsPayload, wsLastAt, wsBuf>>
    /\ UNCHANGED <<coreVars, scaleVars, producerVars>>

\* One second passes.  A handler whose sleep is over runs before the event
\* loop waits again; an awaited get_swarm_decision or send_text may take time.
WsTick ==
    /\ wsNow < MaxWsTime
    /\ \A s \in Subs : ~(wsPc[s] = "sleeping" /\ wsNow >= wsWake[s])
    /\ wsNow' = wsNow + 1
    /\ UNCHANGED <<wsPc, wsWake, wsQueries, wsSent, wsPayload, wsLastAt, wsBuf, wsGone>>
    /\ UNCHANGED <<coreVars, scaleVars, producerVars>>

\* FloorOk as it would be with the comparison off by one the other way
\* (replicas < 3).
FloorOkOffByOne(replicas) == ~(replicas < ScaleFloor - 1)

\* "if request.replicas < 4: raise HTTPException(400)" lets the request pass.
FloorOk(replicas) == ~(replicas < ScaleFloor)

\* ScaleResponse as it would be if the return code were not looked at.
ScaleResponseIgnoringExit(replicas, out) ==
    IF ~out.raised
    THEN [status |-> 200, replicas |-> replicas]
    ELSE [status |-> 500, replicas |-> NoReplicas]

\* What scale_scraper answers once subprocess.run has ended: the success
\* dict on return code 0; otherwise HTTPException(500), raised in the try
\* block, caught by "except Exception" and raised again as HTTPException(500).
ScaleResponse(replicas, out) ==
    IF ~out.raised /\ out.returncode = 0
    THEN [status |-> 200, replicas |-> replicas]
    ELSE [status |-> 500, replicas |-> NoReplicas]

\* POST /api/system/scale-scraper.  The handler has no await: it runs whole.
ScaleScraper(replicas) ==
    /\ Len(scaleCmds) < MaxScaleReqs
    /\ scaleReq' = replicas
    /\ IF FloorOk(replicas)
       THEN \E out \in RunOutcomes :
                /\ scaleCmds' = Append(scaleCmds, replicas)
                /\ scaleRun' = out
                /\ scaleResp' = ScaleResponse(replicas, out)
       ELSE /\ scaleCmds' = scaleCmds
            /\ scaleRun' = scaleRun
            /\ scaleResp' = [status |-> 400, replicas |-> NoReplicas]
    /\ UNCHANGED <<coreVars, wsVars, producerVars>>

othersOfProd == <<coreVars, wsVars, scaleVars, gasVars, defiVars, fundVars>>

\* A loop (or any caller) awaits run_cycle of producer p.
ProdInvoke(p) ==
    /\ prodPc[p] \in {"idle", "returned", "raised"}
    /\ prodPc' = [prodPc EXCEPT ![p] = "fetching"]
    /\ prodLeft' = [prodLeft EXCEPT ![p] = Fetches(p)]
    /\ UNCHANGED othersOfProd

\* Fetches left after one fetch of p returned (failed = FALSE) or raised.
\* Every fetch is inside a try/except Exception; BridgeWatcher's encloses
\* the whole for loop, so a failure skips the bridges that remain.
LeftAfterFetch(p, failed) ==
    IF failed /\ p = "BridgeWatcher" THEN 0 ELSE prodLeft[p] - 1

\* One external fetch of the pass returns or fails.
ProdFetch(p) ==
    /\ prodPc[p] = "fetching"
    /\ prodLeft[p] > 0
    /\ \E failed \in BOOLEAN :
        prodLeft' = [prodLeft EXCEPT ![p] = LeftAfterFetch(p, failed)]
    /\ UNCHANGED <<prodPc, othersOfProd>>

\* How run_cycle can go on when the fetches of a pass are done.
PassEnds(p) ==
    IF Repeats(p) THEN {"sleeping"}
    ELSE IF AnalysisCanRaise(p) THEN {"returned", "raised"}
    ELSE {"returned"}

\* The pass is over: run_cycle returns (or raises), except where its body is
\* a "while True", which sleeps 60 s instead.
ProdPassEnd(p) ==
    /\ prodPc[p] = "fetching"
    /\ prodLeft[p] = 0
    /\ \E e \in PassEnds(p) : prodPc' = [prodPc EXCEPT ![p] = e]
    /\ UNCHANGED <<prodLeft, othersOfProd>>

\* The asyncio.sleep(60) inside run_cycle is over: the next pass begins.
ProdSleepOver(p) ==
    /\ prodPc[p] = "sleeping"
    /\ prodPc' = [prodPc EXCEPT ![p] = "fetching"]
    /\ prodLeft' = [prodLeft EXCEPT ![p] = Fetches(p)]
    /\ UNCHANGED othersOfProd

othersOfGas == <<coreVars, wsVars, scaleVars, prodVars, defiVars, fundVars>>

\* GasWatcher.fetch_gas_price: the fee of a 200 response, None otherwise.
FetchGasPrice(resp) == IF resp.kind = "fee" THEN resp.fee ELSE NoPrice

\* Python truth of a price: neither None nor 0.
Truthy(x) == x # NoPrice /\ x # 0

\* SpikeAlert as it would be with "ratio > self.spike_threshold".
SpikeAlertStrict(current, last) ==
    /\ Truthy(current)
    /\ Truthy(last)
    /\ current > SpikeThreshold * last

\* "if current_gas and self.last_gas_price" and "ratio >= spike_threshold",
\* where ratio = current_gas / self.last_gas_price and both are positive.
SpikeAlert(current, last) ==
    /\ Truthy(current)
    /\ Truthy(last)
    /\ current >= SpikeThreshold * last

\* "if current_gas: self.last_gas_price = current_gas"
NewLastPrice(current, last) == IF Truthy(current) THEN current ELSE last

\* GasWatcher.monitor_network, which is all run_cycle does.
MonitorNetwork ==
    /\ gasCycles < MaxGasCycles
    /\ \E resp \in GasResponses :
        LET current == FetchGasPrice(resp)
        IN /\ gasFetched' = current
           /\ gasAlert' = SpikeAlert(current, lastGasPrice)
           /\ lastGasPrice' = NewLastPrice(current, lastGasPrice)
    /\ gasCycles' = gasCycles + 1
    /\ UNCHANGED othersOfGas

othersOfDefi == <<coreVars, wsVars, scaleVars, prodVars, gasVars, fundVars>>

\* DefiLlamaTracker.fetch_protocol_data: the JSON of a 200 response, None
\* on another status or on an exception.
FetchProtocolData(resp) ==
    IF resp.kind \in {"raise", "status"} THEN NoData ELSE resp

\* What the body of analyze_health's try block comes to: "raise" where it
\* raises (IndexError on an empty history, ZeroDivisionError on a previous
\* TVL of 0, KeyError on a missing 'name'), "none" for a history shorter
\* than 2, else the signal.
AnalysisBody(data) ==
    LET h == data.tvl
        n == Len(h)
    IN IF n = 0 THEN "raise"
       ELSE IF n < 2 THEN "none"
       ELSE IF h[n - 1] = 0 THEN "raise"
       ELSE IF ~data.named THEN "raise"
       ELSE IF (h[n] - h[n - 1]) * 100 > TvlTrigger * h[n - 1]
            THEN "UNDERVALUED - BUY OPPORTUNITY"
            ELSE "NEUTRAL"

\* AnalyzeHealth as it would be without the try/except around its body.
AnalyzeHealthNoCatch(data) ==
    IF data.kind \in {"none", "empty"} THEN "none" ELSE AnalysisBody(data)

\* DefiLlamaTracker.analyze_health: None for no data ("if not data") and
\* wherever the body raises ("except Exception"), else the signal.
AnalyzeHealth(data) ==
    IF data.kind \in {"none", "empty"} THEN "none"
    ELSE IF AnalysisBody(data) = "raise" THEN "none"
    ELSE AnalysisBody(data)

\* A caller awaits DefiLlamaTracker.run_cycle.
DefiInvoke ==
    /\ defiPc \in {"idle", "returned", "raised"}
    /\ defiRuns < MaxDefiRuns
    /\ defiRuns' = defiRuns + 1
    /\ defiPc' = "running"
    /\ defiIdx' = 0
    /\ defiSignals' = {}
    /\ UNCHANGED <<defiData, othersOfDefi>>

\* One iteration of "for slug in self.protocols_to_watch": fetch, analyse,
\* log the signal if there is one.  Nothing in run_cycle catches: were
\* analyze_health to raise, run_cycle would raise.  After the last protocol
\* run_cycle returns.
DefiStep ==
    /\ defiPc = "running"
    /\ defiIdx < Len(Protocols)
    /\ \E resp \in DefiResponses :
        LET data == FetchProtocolData(resp)
            analysis == AnalyzeHealth(data)
            slug == Protocols[defiIdx + 1]
        IN /\ defiData' = data
           /\ IF analysis = "raise"
              THEN /\ defiPc' = "raised"
                   /\ UNCHANGED <<defiIdx, defiSignals>>
              ELSE /\ defiIdx' = defiIdx + 1
                   /\ defiSignals' = IF analysis \in {"none", "NEUTRAL"}
                                      THEN defiSignals
                                      ELSE defiSignals \cup {slug}
                   /\ defiPc' = IF defiIdx + 1 = Len(Protocols)
                                 THEN "returned" ELSE "running"
    /\ UNCHANGED <<defiRuns, othersOfDefi>>

othersOfFund == <<coreVars, wsVars, scaleVars, prodVars, gasVars, defiVars>>

\* Qualifies as it would be with "rate >= self.min_funding_rate_threshold".
QualifiesAtThreshold(rate) == rate # NoRate /\ rate # 0 /\ rate >= FundingThreshold

\* "if rate and rate > self.min_funding_rate_threshold"
Qualifies(rate) == rate # NoRate /\ rate # 0 /\ rate > FundingThreshold

\* "annualized_apr = rate * 3 * 365 * 100", in units of 1/10000 percent
AnnualizedApr(rate) == rate * 3 * 365 * 100

\* The opportunities list: one entry per qualifying symbol, in the order of
\* funding_rates.items().
RECURSIVE Opportunities(_, _)
Opportunities(rates, i) ==
    IF i > Len(rates) THEN <<>>
    ELSE IF Qualifies(rates[i])
         THEN <<[symbol |-> i, annualized_apr |-> AnnualizedApr(rates[i])]>>
                \o Opportunities(rates, i + 1)
         ELSE Opportunities(rates, i + 1)

\* Where entry i lands under list.sort(key=annualized_apr, reverse=True):
\* after every entry with a higher APR and, the sort being stable, after the
\* entries of equal APR that came before it.
SortedPosition(opps, i) ==
    1 + Cardinality({j \in 1..Len(opps) :
                        \/ opps[j].annualized_apr > opps[i].annualized_apr
                        \/ opps[j].annualized_apr = opps[i].annualized_apr /\ j < i})

SortByAprDescending(opps) ==
    [k \in 1..Len(opps) |->
        opps[CHOOSE i \in 1..Len(opps) : SortedPosition(opps, i) = k]]

\* "opportunities[:5]"
Top(seq) == IF Len(seq) <= TopN THEN seq ELSE SubSeq(seq, 1, TopN)

\* FundingArbScanner.scan_opportunities: fetch_funding_rates returns a map
\* (symbols in its order, numbered 1, 2, ...) or raises, in which case
\* "except Exception" returns the empty list.
ScanOpportunities ==
    /\ fundPc = "idle"
    /\ fundPc' = "returned"
    /\ \/ /\ fundRates' = NoRates
          /\ fundResult' = <<>>
       \/ \E n \in 1..MaxSymbols : \E rates \in [1..n -> RateValues] :
            /\ fundRates' = rates
            /\ fundResult' = Top(SortByAprDescending(Opportunities(rates, 1)))
    /\ UNCHANGED othersOfFund

Next ==
    \/ Startup
    \/ \E m \in Monitors : CycleBlocking(m)
    \/ \E m \in Monitors : CycleStart(m)
    \/ \E m \in Monitors : CycleEnd(m)
    \/ Tick

\* startup_event and the monitor loops on the event loop's clock.
Spec == Init /\ [][Next]_vars

StopNext ==
    \/ Next
    \/ ShutdownInvoke

\* The same, with shutdown_event invoked at any moment after startup.  What
\* DataNexus.stop does after its first await touches no state of the loops
\* and is followed in LifeSpec.
StopSpec == Init /\ [][StopNext]_vars

LifeNext ==
    \/ Startup
    \/ NexusStart
    \/ \E c \in CompSet : CompStartReturn(c)
    \/ \E c \in CompSet : CompStartRaise(c)
    \/ ShutdownInvoke
    \/ \E c \in CompSet : StopReturn(c)
    \/ \E c \in CompSet : StopRaise(c)
    \/ Elapse

\* startup_event, shutdown_event and DataNexus with the clock.
LifeSpec == Init /\ [][LifeNext]_vars

ScraperNext ==
    \/ StartStream
    \/ StopStream
    \/ \E i \in 1..MaxStreams : StreamBegin(i)
    \/ \E i \in 1..MaxStreams : StreamWake(i)

\* One SocialScraper and its _mock_stream tasks.
ScraperSpec == Init /\ [][ScraperNext]_vars

WsNext ==
    \/ \E s \in Subs : WsConnect(s)
    \/ \E s \in Subs : WsDecisionOk(s)
    \/ \E s \in Subs : WsDecisionBad(s)
    \/ \E s \in Subs : WsSendReturn(s)
    \/ \E s \in Subs : WsSendFail(s)
    \/ \E s \in Subs : WsWakeUp(s)
    \/ \E s \in Subs : WsConsume(s)
    \/ \E s \in Subs : WsDisconnect(s)
    \/ WsTick

\* The /ws handlers, one per connection, with their clock.
WsSpec == Init /\ [][WsNext]_vars

ScaleNext == \E r \in 0..MaxReplicas : ScaleScraper(r)

\* scale_scraper under a sequence of requests.
ScaleSpec == Init /\ [][ScaleNext]_vars

FundNext == ScanOpportunities

\* FundingArbScanner.scan_opportunities on every map of funding rates.
FundingSpec == Init /\ [][FundNext]_vars

DefiNext == DefiInvoke \/ DefiStep

\* DefiLlamaTracker.run_cycle, protocol by protocol.
DefiSpec == Init /\ [][DefiNext]_vars

GasNext == MonitorNetwork

\* GasWatcher under a sequence of cycles.
GasSpec == Init /\ [][GasNext]_vars

ProdNext ==
    \/ \E p \in Producers : ProdInvoke(p)
    \/ \E p \in Producers : ProdFetch(p)
    \/ \E p \in Producers : ProdPassEnd(p)
    \/ \E p \in Producers : ProdSleepOver(p)

\* The run_cycle of every producer.  Every fetch returns or fails, every
\* sleep ends and a coroutine that can go on does: the steps inside
\* run_cycle are weakly fair.  Nothing obliges a caller to invoke it.
ProducerSpec ==
    /\ Init /\ [][ProdNext]_vars
    /\ \A p \in Producers :
        /\ WF_vars(ProdFetch(p))
        /\ WF_vars(ProdPassEnd(p))
        /\ WF_vars(ProdSleepOver(p))

\* ---------------------------------------------------------------- claims

\* In this step a cycle of loop m ended (returned or raised).
Ended(m) == lastEnd'[m] # lastEnd[m]
\* In this step a cycle of loop m began.
Began(m) == cycles'[m] # cycles[m]
\* This step leaves everything loop b owns as it was.
Untouched(b) ==
    /\ pc'[b] = pc[b]
    /\ wakeAt'[b] = wakeAt[b]
    /\ inFlight'[b] = inFlight[b]
    /\ cycles'[b] = cycles[b]
    /\ lastEnd'[b] = lastEnd[b]
    /\ errCount'[b] = errCount[b]
    /\ okCount'[b] = okCount[b]
    /\ taskCount'[b] = taskCount[b]

\* C1: failure isolation.  When a cycle of loop A raises, A's task does not
\* terminate (no loop is ever dead), A goes to the very sleep it takes after
\* a success, and the step changes nothing any other loop B owns, so B's
\* schedule and results are those of the run in which A's cycle succeeded.
C1_FailureIsolation ==
    /\ [](\A m \in Monitors : pc[m] # "dead")
    /\ [][\A a \in Monitors :
            (Ended(a) /\ lastResult'.cause # "ok") =>
                /\ pc'[a] = "sleeping"
                /\ wakeAt'[a] = now' + Cadence(a)
                /\ \A b \in Monitors \ {a} : Untouched(b)]_vars

\* C1 witness: one loop has failed on each of its two cycles and is asleep,
\* while another loop has run two cycles without a failure.
C1_Witness ==
    /\ cycles["run_exchange_flow_monitor"] = 2
    /\ errCount["run_exchange_flow_monitor"] = 2
    /\ pc["run_exchange_flow_monitor"] = "sleeping"
    /\ cycles["run_global_book_analysis"] >= 2
    /\ errCount["run_global_book_analysis"] = 0

\* C2: slowness isolation.  No cycle, however long and even when it never
\* yields, delays another loop: a sleeping loop is never found past the end
\* of its sleep, so each loop starts exactly one cadence after its last cycle.
C2_SlownessIsolation ==
    \A m \in Monitors : pc[m] = "sleeping" => now <= wakeAt[m]

\* C3: for every loop, a cycle after the first starts exactly one cadence
\* after the previous cycle ended, so start-to-start is the cadence plus the
\* previous cycle's duration, and never less than the cadence.
C3_GapIsCadencePlusDuration ==
    [][\A m \in Monitors :
         (Began(m) /\ cycles[m] >= 1) => now = lastEnd[m] + Cadence(m)]_vars

\* C4: a failed cycle is caught, logged exactly once with the loop and the
\* cause, and followed by the same full cadence wait as a success, whatever
\* the cause; nothing but a failed cycle logs; a loop none of whose cycles
\* has returned has, after k completed waits (it is in cycle k+1 or in the
\* wait after it), logged k or k+1 errors; cycle k+1 never begins before k
\* cadences have passed; no failure ends the loop.
C4_FailureThenFullWait ==
    /\ [](\A m \in Monitors :
            /\ pc[m] # "dead"
            /\ errCount[m] + okCount[m] = cycles[m] - inFlight[m]
            /\ (okCount[m] = 0 /\ cycles[m] >= 1) =>
                   errCount[m] \in {cycles[m] - 1, cycles[m]}
            /\ cycles[m] >= 1 => (cycles[m] - 1) * Cadence(m) <= now)
    /\ [][\A m \in Monitors :
            IF Ended(m)
            THEN /\ lastResult'.monitor = m
                 /\ pc'[m] = "sleeping"
                 /\ wakeAt'[m] = now' + Cadence(m)
                 /\ IF lastResult'.cause = "ok"
                    THEN errCount'[m] = errCount[m] /\ lastLog' = lastLog
                    ELSE /\ errCount'[m] = errCount[m] + 1
                         /\ lastLog' = [monitor |-> m, cause |-> lastResult'.cause]
            ELSE errCount'[m] = errCount[m]]_vars

\* C4 witness: a loop whose two cycles both failed has logged two errors, the
\* latest naming it, and is in its cadence wait.
C4_Witness ==
    /\ cycles["run_global_book_analysis"] = 2
    /\ errCount["run_global_book_analysis"] = 2
    /\ okCount["run_global_book_analysis"] = 0
    /\ lastLog.monitor = "run_global_book_analysis"
    /\ lastLog.cause = "malformed payload"
    /\ pc["run_global_book_analysis"] = "sleeping"
    /\ wakeAt["run_global_book_analysis"] = now + Cadence("run_global_book_analysis")

\* C5: once shutdown has been invoked and the grace period has passed, no
\* monitor loop that has already run a cycle begins another one.
C5_NoCycleAfterShutdown ==
    [][\A m \in Monitors :
         (Began(m) /\ cycles[m] >= 1) =>
             ~(shutCalls > 0 /\ now > shutAt + GracePeriod)]_vars

\* C6: shutdown never blocks: once the nexus start task has run, shutdown is
\* no longer awaiting a feed's stop() when the grace period after its
\* invocation has passed.
C6_ShutdownBounded ==
    (shutPc \in CompSet /\ nexusTask # "created") => now <= shutAt + GracePeriod

\* C7: shutdown is idempotent and safe on a partially started system: once
\* the nexus start task has run, every shutdown that ends has ended without
\* raising and has left every feed whose start() was called stopped.
C7_ShutdownIdempotent ==
    (shutPc \in {"done", "raised"} /\ nexusTask # "created") =>
        /\ shutPc = "done"
        /\ \A c \in CompSet : startPc[c] # "new" => stopped[c]

\* C8: a stop request is honoured before the next cycle: while the stop flag
\* stands (running is FALSE) no stream loop produces a post.
C8_NoOutputAfterStop ==
    [][~running => posts' = posts]_vars

\* C9: startup does not block: whenever a task it spawns exists, startup_event
\* has already returned, having waited for no cycle, sleep or nexus start.
C9_StartupReturns ==
    ((\E m \in Monitors : taskCount[m] > 0) \/ nexusTask # "none")
        => startupPc = "returned"

\* C9 witness: startup_event has returned while no loop has begun a cycle and
\* the nexus start task has not run yet.
C9_Witness ==
    /\ startupPc = "returned"
    /\ nexusTask = "created"
    /\ \A m \in Monitors : pc[m] = "created" /\ cycles[m] = 0

\* C10: after startup each loop has exactly one task; at most one cycle of a
\* loop is in flight; a cycle begins only when the previous one has ended and
\* a full cadence has passed since; cycles are numbered without a gap.
C10_OneTaskSequentialCycles ==
    /\ [](startupPc = "returned" => \A m \in Monitors : taskCount[m] = 1)
    /\ [](\A m \in Monitors : inFlight[m] <= 1 /\ (inFlight[m] = 1 <=> pc[m] = "running"))
    /\ [][\A m \in Monitors :
            Began(m) =>
                /\ cycles'[m] = cycles[m] + 1
                /\ inFlight[m] = 0
                /\ cycles[m] >= 1 => now >= lastEnd[m] + Cadence(m)]_vars

\* C10 witness: a loop whose first cycle was slow (it ended a tick or more
\* after it began at 0) has its second cycle in flight, alone.
C10_Witness ==
    /\ cycles["run_global_book_analysis"] = 2
    /\ lastEnd["run_global_book_analysis"] >= 1
    /\ pc["run_global_book_analysis"] = "running"
    /\ inFlight["run_global_book_analysis"] = 1

\* Loop m has run on time so far: its cycles took no time and none began
\* late, so the k-th began at (k - 1) cadences.
OnTime(m) ==
    \/ pc[m] = "sleeping" /\ wakeAt[m] = cycles[m] * Cadence(m)
    \/ pc[m] = "running" /\ now = (cycles[m] - 1) * Cadence(m)

\* C11: two loops started together, A sleeping one time unit (10 s) and B
\* three (30 s), with cycles of negligible duration: after three time units A
\* has run 3 times and B once, each count within 1 of that.
C11_CadenceCounts ==
    (/\ now * 5 = 3 * SleepGlobalBook
     /\ OnTime("run_global_book_analysis")
     /\ OnTime("run_gas_watcher"))
        => /\ cycles["run_global_book_analysis"] \in 2..4
           /\ cycles["run_gas_watcher"] \in 0..2

\* C11 witness: three time units after startup A has run exactly 3 times and
\* B exactly once, both on time.
C11_Witness ==
    /\ now * 5 = 3 * SleepGlobalBook
    /\ OnTime("run_global_book_analysis")
    /\ OnTime("run_gas_watcher")
    /\ cycles["run_global_book_analysis"] = 3
    /\ cycles["run_gas_watcher"] = 1

\* A step in which the send_text awaited for connection s raises.
SendFailed(s) ==
    /\ wsPc[s] = "sending"
    /\ wsPc'[s] # "sending"
    /\ wsSent'[s] = wsSent[s]

\* A step in which the client of connection s goes away.
Disconnected(s) == wsGone'[s] /\ ~wsGone[s]

\* Nothing of connection b changes in the step.
WsUntouched(b) ==
    /\ wsPc'[b] = wsPc[b]
    /\ wsWake'[b] = wsWake[b]
    /\ wsQueries'[b] = wsQueries[b]
    /\ wsSent'[b] = wsSent[b]
    /\ wsPayload'[b] = wsPayload[b]
    /\ wsLastAt'[b] = wsLastAt[b]
    /\ wsBuf'[b] = wsBuf[b]
    /\ wsGone'[b] = wsGone[b]

\* C12: subscriber isolation.  When delivery to one subscriber fails or that
\* subscriber disconnects, that subscriber stops being served after the
\* failure and nobody else does: the step changes nothing of any other
\* subscriber and takes no time, a subscriber is closed only by a failure of
\* its own handler, and a subscriber whose interval is over is served before
\* the clock moves, whatever the interleaving.
C12_SubscriberIsolation ==
    /\ [][\A a \in Subs :
            (SendFailed(a) \/ Disconnected(a))
                => /\ wsNow' = wsNow
                   /\ SendFailed(a) => wsPc'[a] = "closed"
                   /\ \A b \in Subs \ {a} : WsUntouched(b)]_vars
    /\ [][\A b \in Subs :
            (wsPc'[b] = "closed" /\ wsPc[b] # "closed")
                => wsPc[b] \in {"deciding", "sending"}]_vars
    /\ [](\A b \in Subs : wsPc[b] = "sleeping" => wsNow <= wsWake[b])

\* C12 witness: one subscriber was dropped after its client went away while
\* the other, connected with it, has received a snapshot in each of three
\* iterations.
C12_Witness ==
    /\ wsPc["ws1"] = "closed"
    /\ wsGone["ws1"]
    /\ wsSent["ws1"] = 1
    /\ wsPc["ws2"] = "sleeping"
    /\ wsSent["ws2"] = 3

\* C13: when get_swarm_decision raises or returns a decision without one of
\* its keys, the stream degrades to a hold snapshot and keeps serving: a
\* handler that awaits the aggregator is not terminated by what comes back.
C13_AggregatorViolationDegrades ==
    [][\A s \in Subs : wsPc[s] = "deciding" => wsPc'[s] # "closed"]_vars

C15_LastValueWins ==
    \A s \in Subs :
        /\ wsBuf[s] <= 1
        /\ ~(wsPc[s] = "sending" /\ ~wsGone[s] /\ wsBuf[s] = BufCap)

\* C16: once a delivery to a subscriber has failed, its handler is closed
\* for good: no further send_text and no further get_swarm_decision is made
\* for it.
C16_FailedSubscriberNeverRevisited ==
    /\ [][\A s \in Subs : SendFailed(s) => wsPc'[s] = "closed"]_vars
    /\ [][\A s \in Subs :
            wsPc[s] = "closed"
                => /\ wsPc'[s] = "closed"
                   /\ wsQueries'[s] = wsQueries[s]
                   /\ wsSent'[s] = wsSent[s]
                   /\ wsPayload'[s] = wsPayload[s]]_vars

\* C16 witness: a subscriber whose second delivery failed is closed, two
\* seconds later, with the two queries and the one snapshot it had then.
C16_Witness ==
    /\ wsPc["ws1"] = "closed"
    /\ wsQueries["ws1"] = 2
    /\ wsSent["ws1"] = 1
    /\ wsLastAt["ws1"] = 0
    /\ wsNow = 3

\* C17: one aggregator query per tick serves all subscribers: no two
\* subscribers have a query of their own in flight at once, and subscribers
\* served at the same time got the same snapshot.
C17_OneQueryFanOut ==
    \A a, b \in Subs :
        a # b =>
            /\ ~(wsPc[a] = "deciding" /\ wsPc[b] = "deciding")
            /\ (/\ wsPc[a] = "sleeping" /\ wsPc[b] = "sleeping"
                /\ wsLastAt[a] = wsLastAt[b])
                    => wsPayload[a] = wsPayload[b]

\* C18: every snapshot carries a timestamp generated when it is built, so
\* the snapshot of a later iteration carries another timestamp than the one
\* before it; pnl is the placeholder.
C18_TimestampGenerated ==
    [][\A s \in Subs :
        (wsPc[s] = "deciding" /\ wsPc'[s] = "sending" /\ wsSent[s] >= 1)
            => /\ wsPayload'[s].timestamp # wsPayload[s].timestamp
               /\ wsPayload'[s].pnl = PnlPlaceholder]_vars

\* C19: scale floor.  A request with replicas below 4 is rejected with an
\* explicit error (400) and runs no command; a request with 4 or more runs
\* exactly one command, which carries the requested count.
C19_ScaleFloor ==
    /\ [](\A i \in 1..Len(scaleCmds) : scaleCmds[i] >= 4)
    /\ []((scaleReq # NoReplicas /\ scaleReq < 4) => scaleResp.status = 400)
    /\ [][IF scaleReq' < 4
           THEN scaleCmds' = scaleCmds /\ scaleResp'.status = 400
           ELSE scaleCmds' = Append(scaleCmds, scaleReq')]_scaleVars

\* C19 witness: a request for 4 replicas ran its command, then a request for
\* 3 was rejected and ran none.
C19_Witness ==
    /\ scaleCmds = <<4>>
    /\ scaleReq = 3
    /\ scaleResp.status = 400

\* C20: when the command exits non-zero or cannot be run, the caller gets an
\* explicit error (500), never the success result, and the command was run
\* once, with no retry; the success result is returned only on exit status 0.
C20_ScaleFailureSurfaced ==
    /\ [](scaleResp.status = 200
            => /\ ~scaleRun.raised /\ scaleRun.returncode = 0
               /\ scaleResp.replicas = scaleReq)
    /\ [][Len(scaleCmds') # Len(scaleCmds)
            => /\ Len(scaleCmds') = Len(scaleCmds) + 1
               /\ IF ~scaleRun'.raised /\ scaleRun'.returncode = 0
                  THEN scaleResp'.status = 200
                  ELSE scaleResp'.status = 500]_scaleVars

\* C20 witness: the command of a request for 5 replicas exited with status 1:
\* the caller got the 500 and the command ran once.
C20_Witness ==
    /\ scaleReq = 5
    /\ scaleCmds = <<5>>
    /\ scaleRun = [raised |-> FALSE, returncode |-> 1]
    /\ scaleResp.status = 500

\* C22: across any sequence of start_stream and stop_stream calls at most
\* one _mock_stream loop is active at a time: never two loops waiting to emit
\* their next post.
C22_AtMostOneStream ==
    Cardinality({i \in 1..MaxStreams : streamPc[i] = "sleeping"}) <= 1

\* C23: every loop started before a stop_stream call terminates after that
\* call, whatever calls follow.  A loop ends only at its "while
\* self.running" test, so a loop asleep at the call ends at the test that
\* follows its wake-up: otherwise it goes on for as long as no further
\* stop_stream is called.
C23_StoppedLoopTerminates ==
    [][\A i \in 1..MaxStreams :
        (stopAsked[i] /\ StreamWake(i)) => streamPc'[i] = "done"]_vars

\* C21: every producer's run_cycle is bounded: provided each external fetch
\* returns or fails, every invocation of run_cycle eventually returns or
\* fails.
C21_RunCycleBounded ==
    \A p \in Producers :
        (prodPc[p] = "fetching") ~> (prodPc[p] \in {"returned", "raised"})

\* C24: GasWatcher across cycles.  A cycle that fetched a price (neither
\* missing nor zero) makes it last_gas_price; a cycle whose fetch failed or
\* gave no price leaves last_gas_price as it was; last_gas_price is never
\* zero; the spike warning is logged in a cycle exactly when a previous
\* price exists and the fetched price is at least 2 times it, so never in
\* the first cycle that fetched a price.
C24_GasWatcherState ==
    /\ [](lastGasPrice # 0)
    /\ [][gasCycles' # gasCycles =>
            LET f == gasFetched'
                priced == f # NoPrice /\ f # 0
            IN /\ priced => lastGasPrice' = f
               /\ ~priced => lastGasPrice' = lastGasPrice
               /\ gasAlert' <=> (lastGasPrice # NoPrice /\ priced /\ f >= 2 * lastGasPrice)
               /\ lastGasPrice = NoPrice => ~gasAlert']_vars

\* C24 witness: the third cycle fetched a price of 4, at least twice the
\* price before it: it has logged the warning and last_gas_price is 4.
C24_Witness ==
    /\ gasCycles = 3
    /\ gasFetched = 4
    /\ lastGasPrice = 4
    /\ gasAlert

\* The data has a TVL history whose last entry is more than 20 percent above
\* the one before it.
RoseMoreThan20(d) ==
    /\ d.kind = "json"
    /\ Len(d.tvl) >= 2
    /\ d.tvl[Len(d.tvl) - 1] > 0
    /\ (d.tvl[Len(d.tvl)] - d.tvl[Len(d.tvl) - 1]) * 5 > d.tvl[Len(d.tvl) - 1]

\* C25: DefiLlamaTracker.run_cycle never raises and returns only when it has
\* processed every watched protocol, in order; processing a protocol never
\* touches the signal of another; a protocol whose fetch failed, whose
\* response was not a 200 or whose history is missing or too short gets no
\* signal; a signal is logged only when the TVL rose by more than 20 percent.
C25_DefiLlamaIsolation ==
    /\ [](defiPc # "raised")
    /\ [](defiPc = "returned" => defiIdx = 4)
    /\ [][defiIdx' # defiIdx /\ defiIdx' # 0 =>
            LET slug == Protocols[defiIdx']
            IN /\ defiIdx' = defiIdx + 1
               /\ defiSignals' \ {slug} = defiSignals
               /\ slug \in defiSignals' => RoseMoreThan20(defiData')
               /\ (defiData'.kind # "json" \/ Len(defiData'.tvl) < 2)
                    => slug \notin defiSignals']_vars

\* C25 witness: run_cycle has returned after all four protocols although the
\* last fetch failed, with a signal logged for the second protocol only.
C25_Witness ==
    /\ defiPc = "returned"
    /\ defiIdx = 4
    /\ defiData = NoData
    /\ defiSignals = {"uniswap-v3"}

\* The symbols whose funding rate is present and above 0.001.
AboveThreshold == {x \in DOMAIN fundRates : fundRates[x] # NoRate /\ fundRates[x] > 10}

\* C26: scan_opportunities returns the at most 5 symbols of highest
\* annualized APR among exactly the symbols whose rate is present and
\* strictly above 0.001, by APR descending; a symbol with a missing, zero or
\* at-threshold rate is never returned; when the fetch fails the result is
\* the empty list.
C26_TopFundingOpportunities ==
    fundPc = "returned" =>
        LET r == fundResult
            Returned == {r[k].symbol : k \in 1..Len(r)}
        IN /\ Len(r) = IF Cardinality(AboveThreshold) < 5
                        THEN Cardinality(AboveThreshold) ELSE 5
           /\ Returned \subseteq AboveThreshold
           /\ Cardinality(Returned) = Len(r)
           /\ \A k \in 1..Len(r) :
                r[k].annualized_apr = fundRates[r[k].symbol] * 109500
           /\ \A k \in 1..(Len(r) - 1) : r[k].annualized_apr >= r[k + 1].annualized_apr
           /\ \A x \in AboveThreshold \ Returned : \A k \in 1..Len(r) :
                fundRates[x] <= fundRates[r[k].symbol]
           /\ fundRates = NoRates => r = <<>>

\* C26 witness: six symbols are above the threshold, not all at the same
\* rate, next to none that is not, and the five of highest APR are returned.
C26_Witness ==
    /\ fundPc = "returned"
    /\ Cardinality(AboveThreshold) = 6
    /\ Len(fundResult) = 5
    /\ fundResult[1].annualized_apr > fundResult[5].annualized_apr

====
